---- MODULE Spec2Model ----
(***************************************************************************)
(* The arkit8s assistant (src/utilities/assistant_model.py): tokenizer,    *)
(* chunker, vocabulary, vectorizer, autoencoder training, the pickled      *)
(* model artifact and the query path.                                      *)
(*                                                                         *)
(* Texts are sequences of one-character strings.  A Python float is a      *)
(* fixed-point integer counting units of 1/Scale, of magnitude at most     *)
(* MaxFloat, or one of the three IEEE specials PInf, NInf, NaN; results    *)
(* are rounded to the nearest unit and overflow to an infinity as IEEE     *)
(* doubles do.                                                             *)
(***************************************************************************)
EXTENDS Integers, Sequences, FiniteSets, TLC

(***************************************************************************)
(* Bounds of the model.                                                    *)
(***************************************************************************)
Scale == 10
MaxFloat == 4000
MaxEpochs == 2
MaxHidden == 2
MaxBatch == 2
MaxTopK == 2

(***************************************************************************)
(* Floats.                                                                 *)
(***************************************************************************)
PInf == MaxFloat + 1
NInf == 0 - PInf
NaN == MaxFloat + 2

IsNaN(a) == a = NaN
IsInf(a) == a = PInf \/ a = NInf
IsFinite(a) == ~IsNaN(a) /\ ~IsInf(a)
Sign(a) == IF a > 0 THEN 1 ELSE IF a < 0 THEN 0 - 1 ELSE 0

\* A mathematical result of n units, overflowing to an infinity.
Fit(n) == IF n > MaxFloat THEN PInf ELSE IF n < 0 - MaxFloat THEN NInf ELSE n

\* n/d rounded to the nearest integer, halves away from zero (d > 0).
Rnd(n, d) == IF n >= 0 THEN (2 * n + d) \div (2 * d)
             ELSE 0 - ((2 * (0 - n) + d) \div (2 * d))

\* int -> float
FromInt(n) == Fit(n * Scale)
One == FromInt(1)
Zero == FromInt(0)

FAdd(a, b) ==
    IF IsNaN(a) \/ IsNaN(b) THEN NaN
    ELSE IF IsInf(a) /\ IsInf(b) THEN (IF a = b THEN a ELSE NaN)
    ELSE IF IsInf(a) THEN a
    ELSE IF IsInf(b) THEN b
    ELSE Fit(a + b)

FNeg(a) == IF IsNaN(a) THEN NaN ELSE 0 - a

FSub(a, b) == FAdd(a, FNeg(b))

FMul(a, b) ==
    IF IsNaN(a) \/ IsNaN(b) THEN NaN
    ELSE IF IsInf(a) \/ IsInf(b)
         THEN (IF a = 0 \/ b = 0 THEN NaN
               ELSE IF Sign(a) = Sign(b) THEN PInf ELSE NInf)
    ELSE Fit(Rnd(a * b, Scale))

\* a / b for b # 0 (every division of the program is by a non-zero divisor).
FDiv(a, b) ==
    IF IsNaN(a) \/ IsNaN(b) THEN NaN
    ELSE IF IsInf(a) /\ IsInf(b) THEN NaN
    ELSE IF IsInf(a) THEN (IF Sign(a) = Sign(b) THEN PInf ELSE NInf)
    ELSE IF IsInf(b) THEN 0
    ELSE IF b > 0 THEN Fit(Rnd(a * Scale, b))
    ELSE Fit(Rnd((0 - a) * Scale, 0 - b))

\* IEEE comparisons: every comparison with NaN is false.
FLt(a, b) == ~IsNaN(a) /\ ~IsNaN(b) /\ a < b
FGt(a, b) == FLt(b, a)
FEq(a, b) == ~IsNaN(a) /\ ~IsNaN(b) /\ a = b

\* Python's max(value, 0.0): the first argument unless the second is greater.
FMax0(a) == IF FGt(0, a) THEN 0 ELSE a

RECURSIVE ISqrtBin(_, _, _)
ISqrtBin(n, lo, hi) ==
    IF lo >= hi THEN lo
    ELSE LET mid == (lo + hi + 1) \div 2
         IN  IF mid * mid <= n THEN ISqrtBin(n, mid, hi) ELSE ISqrtBin(n, lo, mid - 1)

\* math.sqrt of a non-negative float, rounded to the nearest unit.
FSqrt(a) ==
    IF IsNaN(a) THEN NaN
    ELSE IF a = PInf THEN PInf
    ELSE LET n == a * Scale
             r == ISqrtBin(n, 0, n)
         IN  IF n - r * r > r THEN r + 1 ELSE r

\* sum(values): left to right from 0.
RECURSIVE FSumTo(_, _)
FSumTo(s, n) == IF n = 0 THEN 0 ELSE FAdd(FSumTo(s, n - 1), s[n])
FSum(s) == FSumTo(s, Len(s))

(***************************************************************************)
(* Texts: sequences of characters.                                         *)
(***************************************************************************)
Letters == {"a", "b", "c"}
Capitals == {"A", "B", "C"}
Whitespace == {" ", "\n"}
Punctuation == {"."}

\* str.lower, character by character.
LowerChar(c) == CASE c = "A" -> "a" [] c = "B" -> "b" [] c = "C" -> "c" [] OTHER -> c
Lower(text) == [i \in 1..Len(text) |-> LowerChar(text[i])]

\* The characters the pattern [\w...]+ accepts.
IsWordChar(c) == c \in Letters \cup Capitals

RECURSIVE FindWords(_, _, _, _)
FindWords(text, i, word, out) ==
    IF i > Len(text)
    THEN (IF word = <<>> THEN out ELSE Append(out, word))
    ELSE IF IsWordChar(text[i])
    THEN FindWords(text, i + 1, Append(word, text[i]), out)
    ELSE FindWords(text, i + 1, <<>>, IF word = <<>> THEN out ELSE Append(out, word))

\* _tokenize: re.findall(r"[\w...]+", text.lower())
Tokenize(text) == FindWords(Lower(text), 1, <<>>, <<>>)

\* str.strip
RECURSIVE LStrip(_)
LStrip(text) ==
    IF text # <<>> /\ Head(text) \in Whitespace THEN LStrip(Tail(text)) ELSE text
RECURSIVE RStrip(_)
RStrip(text) ==
    IF text # <<>> /\ text[Len(text)] \in Whitespace
    THEN RStrip(SubSeq(text, 1, Len(text) - 1)) ELSE text
Strip(text) == RStrip(LStrip(text))

\* The end of the match of \n\s*\n that starts at i (text[i] is a newline): the
\* last newline of the whitespace run after i, or 0 when there is none.
RECURSIVE BlankEnd(_, _, _)
BlankEnd(text, j, last) ==
    IF j > Len(text) \/ text[j] \notin Whitespace THEN last
    ELSE BlankEnd(text, j + 1, IF text[j] = "\n" THEN j ELSE last)

\* re.split(r"\n\s*\n", text)
RECURSIVE SplitBlank(_, _, _, _)
SplitBlank(text, i, segment, out) ==
    IF i > Len(text) THEN Append(out, segment)
    ELSE IF text[i] = "\n" /\ BlankEnd(text, i + 1, 0) # 0
    THEN SplitBlank(text, BlankEnd(text, i + 1, 0) + 1, <<>>, Append(out, segment))
    ELSE SplitBlank(text, i + 1, Append(segment, text[i]), out)

RECURSIVE StripNonEmpty(_)
StripNonEmpty(segments) ==
    IF segments = <<>> THEN <<>>
    ELSE LET rest == StripNonEmpty(Tail(segments))
         IN  IF Strip(Head(segments)) # <<>>
             THEN <<Strip(Head(segments))>> \o rest ELSE rest

Paragraphs(text) == StripNonEmpty(SplitBlank(text, 1, <<>>, <<>>))

\* "\n\n".join(buffer)
RECURSIVE Join(_)
Join(buffer) ==
    IF buffer = <<>> THEN <<>>
    ELSE IF Len(buffer) = 1 THEN buffer[1]
    ELSE buffer[1] \o <<"\n", "\n">> \o Join(Tail(buffer))

\* Pack without the chunk of what is left in the buffer after the loop.
RECURSIVE PackWithoutRest(_, _, _, _, _, _)
PackWithoutRest(paragraphs, i, max_chars, chunks, buffer, current) ==
    IF i > Len(paragraphs) THEN chunks
    ELSE LET para_len == Len(paragraphs[i])
             close == current + para_len > max_chars /\ buffer # <<>>
             chunks1 == IF close THEN Append(chunks, Join(buffer)) ELSE chunks
             buffer1 == IF close THEN <<>> ELSE buffer
             current1 == IF close THEN 0 ELSE current
         IN  PackWithoutRest(paragraphs, i + 1, max_chars, chunks1,
                             Append(buffer1, paragraphs[i]), current1 + para_len)

\* The loop of _chunk_text over paragraphs[i..]: (chunks, buffer, current).
RECURSIVE Pack(_, _, _, _, _, _)
Pack(paragraphs, i, max_chars, chunks, buffer, current) ==
    IF i > Len(paragraphs)
    THEN (IF buffer # <<>> THEN Append(chunks, Join(buffer)) ELSE chunks)
    ELSE LET para_len == Len(paragraphs[i])
             close == current + para_len > max_chars /\ buffer # <<>>
             chunks1 == IF close THEN Append(chunks, Join(buffer)) ELSE chunks
             buffer1 == IF close THEN <<>> ELSE buffer
             current1 == IF close THEN 0 ELSE current
         IN  Pack(paragraphs, i + 1, max_chars, chunks1,
                  Append(buffer1, paragraphs[i]), current1 + para_len)

\* ChunkText cutting every chunk down to max_chars characters.
ChunkTextTruncated(text, max_chars) ==
    IF Paragraphs(text) = <<>> THEN <<>>
    ELSE LET chunks == Pack(Paragraphs(text), 1, max_chars, <<>>, <<>>, 0)
         IN  [k \in 1..Len(chunks) |->
                 SubSeq(chunks[k], 1, IF Len(chunks[k]) < max_chars
                                      THEN Len(chunks[k]) ELSE max_chars)]

\* _chunk_text
ChunkText(text, max_chars) ==
    IF Paragraphs(text) = <<>> THEN <<>>
    ELSE Pack(Paragraphs(text), 1, max_chars, <<>>, <<>>, 0)

(***************************************************************************)
(* Vocabulary and vectors.                                                 *)
(***************************************************************************)
Range(s) == {s[i] : i \in DOMAIN s}

\* Python's order of str for the model's letters.
CharRank(c) == CASE c = "a" -> 1 [] c = "b" -> 2 [] c = "c" -> 3 [] OTHER -> 0

RECURSIVE StrLess(_, _)
StrLess(s, t) ==
    IF t = <<>> THEN FALSE
    ELSE IF s = <<>> THEN TRUE
    ELSE IF Head(s) # Head(t) THEN CharRank(Head(s)) < CharRank(Head(t))
    ELSE StrLess(Tail(s), Tail(t))

RECURSIVE Occurrences(_, _)
Occurrences(token, tokens) ==
    IF tokens = <<>> THEN 0
    ELSE (IF Head(tokens) = token THEN 1 ELSE 0) + Occurrences(token, Tail(tokens))

\* counter[token] after counter.update(tokens) for every chunk.
RECURSIVE Frequency(_, _)
Frequency(token, tokenized_chunks) ==
    IF tokenized_chunks = <<>> THEN 0
    ELSE Occurrences(token, Head(tokenized_chunks))
         + Frequency(token, Tail(tokenized_chunks))

CorpusTokens(tokenized_chunks) ==
    UNION {Range(tokenized_chunks[i]) : i \in DOMAIN tokenized_chunks}

\* ItemBefore with the key (token) alone, the frequency forgotten.
ItemBeforeByToken(t, u, tokenized_chunks) == StrLess(t, u)

\* The sort key (-freq, token) of vocab_items.sort.
ItemBefore(t, u, tokenized_chunks) ==
    LET ft == Frequency(t, tokenized_chunks)
        fu == Frequency(u, tokenized_chunks)
    IN  ft > fu \/ (ft = fu /\ StrLess(t, u))

\* BuildVocabulary keeping the tokens of frequency <= min_frequency.
BuildVocabularyRare(tokenized_chunks, min_frequency) ==
    LET vocab_items == {t \in CorpusTokens(tokenized_chunks) :
                           Frequency(t, tokenized_chunks) <= min_frequency}
    IN  [t \in vocab_items |->
            Cardinality({u \in vocab_items : ItemBefore(u, t, tokenized_chunks)})]

\* _build_vocabulary: token -> index, in the order of the sorted items.
BuildVocabulary(tokenized_chunks, min_frequency) ==
    LET vocab_items == {t \in CorpusTokens(tokenized_chunks) :
                           Frequency(t, tokenized_chunks) >= min_frequency}
    IN  [t \in vocab_items |->
            Cardinality({u \in vocab_items : ItemBefore(u, t, tokenized_chunks)})]

\* The token that vocab maps to idx.
TokenAt(vocab, idx) == CHOOSE t \in DOMAIN vocab : vocab[t] = idx

\* vector[idx] after the loop of _vectorize: 0.0 plus 1.0 per occurrence.
RECURSIVE CountFloat(_, _)
CountFloat(token, tokens) ==
    IF tokens = <<>> THEN Zero
    ELSE LET before == CountFloat(token, SubSeq(tokens, 1, Len(tokens) - 1))
         IN  IF tokens[Len(tokens)] = token THEN FAdd(before, One) ELSE before

\* Vectorize dividing by the number of tokens, the unknown ones included.
VectorizeAllTokens(tokens, vocab) ==
    LET size == Cardinality(DOMAIN vocab)
        counts == [k \in 1..size |-> CountFloat(TokenAt(vocab, k - 1), tokens)]
        total == FSum(counts)
    IN  IF FGt(total, Zero)
        THEN [k \in 1..size |-> FDiv(counts[k], FromInt(Len(tokens)))] ELSE counts

\* _vectorize
Vectorize(tokens, vocab) ==
    LET size == Cardinality(DOMAIN vocab)
        counts == [k \in 1..size |-> CountFloat(TokenAt(vocab, k - 1), tokens)]
        total == FSum(counts)
    IN  IF FGt(total, Zero) THEN [k \in 1..size |-> FDiv(counts[k], total)] ELSE counts

(***************************************************************************)
(* Dense linear algebra on lists of rows.                                  *)
(***************************************************************************)
ZerosVector(length) == [j \in 1..length |-> Zero]
ZerosMatrix(rows, cols) == [i \in 1..rows |-> ZerosVector(cols)]

\* result[i][j] of _matmul: the k loop, skipping left values equal to 0.0.
RECURSIVE MatMulEntry(_, _, _, _)
MatMulEntry(left_row, right, j, k) ==
    IF k = 0 THEN Zero
    ELSE LET before == MatMulEntry(left_row, right, j, k - 1)
         IN  IF FEq(left_row[k], Zero) THEN before
             ELSE FAdd(before, FMul(left_row[k], right[k][j]))

MatMul(left, right) ==
    [i \in 1..Len(left) |->
        [j \in 1..Len(right[1]) |-> MatMulEntry(left[i], right, j, Len(right))]]

MatrixAddVector(matrix, vector) ==
    [i \in 1..Len(matrix) |-> [j \in 1..Len(vector) |-> FAdd(matrix[i][j], vector[j])]]

MatrixSubtract(left, right) ==
    [i \in 1..Len(left) |-> [j \in 1..Len(left[i]) |-> FSub(left[i][j], right[i][j])]]

MatrixScalarMultiply(matrix, scalar) ==
    [i \in 1..Len(matrix) |-> [j \in 1..Len(matrix[i]) |-> FMul(matrix[i][j], scalar)]]

RECURSIVE ColumnSum(_, _, _)
ColumnSum(matrix, j, i) ==
    IF i = 0 THEN Zero ELSE FAdd(ColumnSum(matrix, j, i - 1), matrix[i][j])

MatrixSumAxis0(matrix) ==
    IF matrix = <<>> THEN <<>>
    ELSE [j \in 1..Len(matrix[1]) |-> ColumnSum(matrix, j, Len(matrix))]

Transpose(matrix) ==
    IF matrix = <<>> THEN <<>>
    ELSE [j \in 1..Len(matrix[1]) |-> [i \in 1..Len(matrix) |-> matrix[i][j]]]

Relu(values) == [i \in 1..Len(values) |-> [j \in 1..Len(values[i]) |-> FMax0(values[i][j])]]

ReluDerivative(values) ==
    [i \in 1..Len(values) |->
        [j \in 1..Len(values[i]) |-> IF FGt(values[i][j], Zero) THEN One ELSE Zero]]

ElementwiseMultiply(left, right) ==
    [i \in 1..Len(left) |-> [j \in 1..Len(left[i]) |-> FMul(left[i][j], right[i][j])]]

Squares(row) == [j \in 1..Len(row) |-> FMul(row[j], row[j])]

NormalizeRow(row) ==
    LET norm == FSqrt(FSum(Squares(row)))
    IN  IF FEq(norm, Zero) THEN row ELSE [j \in 1..Len(row) |-> FDiv(row[j], norm)]

NormalizeRows(matrix) == [i \in 1..Len(matrix) |-> NormalizeRow(matrix[i])]

Products(left, right) ==
    [k \in 1..(IF Len(left) < Len(right) THEN Len(left) ELSE Len(right)) |->
        FMul(left[k], right[k])]

\* _vector_dot: sum(a * b for a, b in zip(left, right))
VectorDot(left, right) == FSum(Products(left, right))

\* linear[j] of _encode_vector: bias[j] plus every vector[i] * weights[i][j].
RECURSIVE EncodeLinear(_, _, _, _, _)
EncodeLinear(vector, weights, bias, j, i) ==
    IF i = 0 THEN bias[j]
    ELSE FAdd(EncodeLinear(vector, weights, bias, j, i - 1),
              FMul(vector[i], weights[i][j]))

EncodeVector(vector, weights, bias) ==
    LET activated == [j \in 1..Len(bias) |->
                         FMax0(EncodeLinear(vector, weights, bias, j, Len(vector)))]
        norm == FSqrt(FSum(Squares(activated)))
    IN  IF FEq(norm, Zero) THEN activated
        ELSE [j \in 1..Len(bias) |-> FDiv(activated[j], norm)]

\* _encode, _cosine_similarity
Encode(vector, weights, bias) == EncodeVector(vector, weights, bias)
CosineSimilarity(matrix, vector) == [i \in 1..Len(matrix) |-> VectorDot(matrix[i], vector)]

(***************************************************************************)
(* The corpus tree and _prepare_dataset.                                   *)
(* A tree is [root |-> parts of the root path, entries |-> the entries in   *)
(* the order rglob yields them]; an entry is [parts |-> its path below the *)
(* is_file, utf8 |-> whether its bytes decode, text].                      *)
(***************************************************************************)
None == <<>>
Some(v) == <<v>>

candidate_extensions == {".md", ".rst", ".txt", ".py", ".yaml", ".yml"}

\* Python's order of str for the path names of the model.
NameRank(name) ==
    CASE name = "a.md" -> 1 [] name = "b.TXT" -> 2 [] name = "c.bin" -> 3
      [] name = "docs" -> 4 [] name = "tmp" -> 5 [] name = "z.md" -> 6 [] OTHER -> 0

RECURSIVE PartsLess(_, _)
PartsLess(p, q) ==
    IF q = <<>> THEN FALSE
    ELSE IF p = <<>> THEN TRUE
    ELSE IF Head(p) # Head(q) THEN NameRank(Head(p)) < NameRank(Head(q))
    ELSE PartsLess(Tail(p), Tail(q))

\* repo_root.rglob("*") taken in the order it yields, without sorted().
SortedEntriesAsListed(entries) == entries

\* sorted(repo_root.rglob("*"))
SortedEntries(entries) ==
    CHOOSE order \in [1..Len(entries) -> Range(entries)] :
        /\ \A i, j \in DOMAIN order : i < j => PartsLess(order[i].parts, order[j].parts)

SnippetLen == 80

\* chunk[:80].replace("\n", " ") + ("..." if len(chunk) > 80 else "")
Snippet(chunk) ==
    LET cut == SubSeq(chunk, 1, IF Len(chunk) < SnippetLen THEN Len(chunk) ELSE SnippetLen)
    IN  [k \in 1..Len(cut) |-> IF cut[k] = "\n" THEN " " ELSE cut[k]]
        \o (IF Len(chunk) > SnippetLen THEN <<".", ".", ".">> ELSE <<>>)

\* path.suffix.lower()
LowerSuffix(name) ==
    CASE name = "a.md" -> ".md" [] name = "z.md" -> ".md" [] name = "b.TXT" -> ".txt"
      [] name = "c.bin" -> ".bin" [] OTHER -> ""

\* Whether the scan reads the entry at path root \o parts.
Eligible(root, entry) ==
    /\ entry.is_file
    /\ LowerSuffix(entry.parts[Len(entry.parts)]) \in candidate_extensions
    /\ "tmp" \notin Range(root \o entry.parts)
    /\ entry.utf8

Capped(max_files, collected) == max_files # None /\ collected >= max_files[1]

\* The inner loop of _prepare_dataset over the chunks k.. of one file.
RECURSIVE ScanChunks(_, _, _, _, _)
ScanChunks(file_chunks, k, rel, max_files, acc) ==
    IF k > Len(file_chunks) THEN acc
    ELSE LET chunk == file_chunks[k]
             chunk_tokens == Tokenize(chunk)
         IN  IF Strip(chunk) = <<>> \/ chunk_tokens = <<>>
             THEN ScanChunks(file_chunks, k + 1, rel, max_files, acc)
             ELSE LET acc1 == [tokenized |-> Append(acc.tokenized, chunk_tokens),
                               chunks |-> Append(acc.chunks, chunk),
                               sources |-> Append(acc.sources, <<rel, Snippet(chunk)>>),
                               collected |-> acc.collected + 1]
                  IN  IF Capped(max_files, acc1.collected) THEN acc1
                      ELSE ScanChunks(file_chunks, k + 1, rel, max_files, acc1)

\* The outer loop of _prepare_dataset over the sorted paths i..
RECURSIVE ScanFiles(_, _, _, _, _, _)
ScanFiles(root, paths, i, max_chars, max_files, acc) ==
    IF i > Len(paths) THEN acc
    ELSE IF ~Eligible(root, paths[i])
    THEN ScanFiles(root, paths, i + 1, max_chars, max_files, acc)
    ELSE LET acc1 == ScanChunks(ChunkText(paths[i].text, max_chars), 1,
                                paths[i].parts, max_files, acc)
         IN  IF Capped(max_files, acc1.collected) THEN acc1
             ELSE ScanFiles(root, paths, i + 1, max_chars, max_files, acc1)

\* Exceptions: the class raised and its message; NoError while none is raised.
NoError == [type |-> "", msg |-> ""]
EmptyCorpusError ==
    [type |-> "RuntimeError", msg |-> "No se encontraron fragmentos de texto"]
EmptyVocabularyError ==
    [type |-> "RuntimeError", msg |-> "La frecuencia minima elimino todo el vocabulario"]
NaNLossError ==
    [type |-> "RuntimeError", msg |-> "valor NaN en la perdida"]

\* _prepare_dataset: [err, chunks, sources, vocab, tokenized]
PrepareDataset(repo_root, max_chars, min_frequency, max_files) ==
    LET scan == ScanFiles(repo_root.root, SortedEntries(repo_root.entries), 1,
                          max_chars, max_files,
                          [tokenized |-> <<>>, chunks |-> <<>>, sources |-> <<>>,
                           collected |-> 0])
        vocab == BuildVocabulary(scan.tokenized, min_frequency)
    IN  IF scan.chunks = <<>>
        THEN [err |-> EmptyCorpusError, chunks |-> <<>>, sources |-> <<>>,
              vocab |-> <<>>, tokenized |-> <<>>]
        ELSE IF DOMAIN vocab = {}
        THEN [err |-> EmptyVocabularyError, chunks |-> <<>>, sources |-> <<>>,
              vocab |-> <<>>, tokenized |-> <<>>]
        ELSE [err |-> NoError, chunks |-> scan.chunks, sources |-> scan.sources,
              vocab |-> vocab, tokenized |-> scan.tokenized]

(***************************************************************************)
(* random.Random: the generator is a linear congruential sequence; its     *)
(* state is the last number drawn.                                         *)
(***************************************************************************)
RngSeed == 42

Seeded(seed) == seed % 64
RngNext(rng) == (rng * 13 + 7) % 64

\* rng.gauss(mu, sigma): mu + z * sigma for the next deviate z, one of -2..2.
GaussValue(rng, mu, sigma) ==
    FAdd(mu, FMul(FromInt(((RngNext(rng) \div 4) % 5) - 2), sigma))

\* The 0.1 of rng.gauss(0.0, 0.1).
Sigma == FDiv(One, FromInt(10))

\* [[rng.gauss(0.0, 0.1) for _ in range(cols)] for _ in range(rows)]: the draw
\* of entry (i, j) is number (i - 1) * cols + j after rng.
RECURSIVE RngSkip(_, _)
RngSkip(rng, n) == IF n = 0 THEN rng ELSE RngSkip(RngNext(rng), n - 1)

GaussMatrix(rng, rows, cols) ==
    [i \in 1..rows |->
        [j \in 1..cols |-> GaussValue(RngSkip(rng, (i - 1) * cols + j - 1), Zero, Sigma)]]

\* rng.shuffle(x): for i from len(x)-1 down to 1, swap x[i] and x[randbelow(i+1)]
\* (positions counted from 0).  [indices, rng]
RECURSIVE ShuffleFrom(_, _, _)
ShuffleFrom(indices, rng, i) ==
    IF i < 1 THEN [indices |-> indices, rng |-> rng]
    ELSE LET rng1 == RngNext(rng)
             j == (rng1 \div 4) % (i + 1)
             swapped == [indices EXCEPT ![i + 1] = indices[j + 1],
                                        ![j + 1] = indices[i + 1]]
         IN  ShuffleFrom(swapped, rng1, i - 1)

Shuffle(indices, rng) == ShuffleFrom(indices, rng, Len(indices) - 1)

(***************************************************************************)
(* One mini-batch of train_assistant_knowledge_base.                       *)
(***************************************************************************)
RECURSIVE FlatSquares(_, _)
FlatSquares(error, i) ==
    IF i > Len(error) THEN <<>> ELSE Squares(error[i]) \o FlatSquares(error, i + 1)

Forward(batch, W1, b1, W2, b2) ==
    LET hidden_linear == MatrixAddVector(MatMul(batch, W1), b1)
        hidden == Relu(hidden_linear)
        reconstruction == MatrixAddVector(MatMul(hidden, W2), b2)
        error == MatrixSubtract(reconstruction, batch)
        squared_error_sum == FSum(FlatSquares(error, 1))
        total_elements == IF error # <<>> THEN Len(error) * Len(error[1]) ELSE 0
    IN  [hidden_linear |-> hidden_linear, hidden |-> hidden, error |-> error,
         loss |-> IF total_elements # 0
                  THEN FDiv(squared_error_sum, FromInt(total_elements)) ELSE Zero]

Gradients(batch, fwd, W2) ==
    LET grad_reconstruction ==
            MatrixScalarMultiply(fwd.error, FDiv(FromInt(2), FromInt(Len(batch))))
        grad_hidden == ElementwiseMultiply(MatMul(grad_reconstruction, Transpose(W2)),
                                           ReluDerivative(fwd.hidden_linear))
    IN  [W2 |-> MatMul(Transpose(fwd.hidden), grad_reconstruction),
         b2 |-> MatrixSumAxis0(grad_reconstruction),
         W1 |-> MatMul(Transpose(batch), grad_hidden),
         b1 |-> MatrixSumAxis0(grad_hidden)]

\* row[j] -= learning_rate * grad_row[j]
DescendMatrix(W, grad, learning_rate) ==
    [i \in 1..Len(W) |->
        [j \in 1..Len(W[i]) |-> FSub(W[i][j], FMul(learning_rate, grad[i][j]))]]
DescendVector(b, grad, learning_rate) ==
    [j \in 1..Len(b) |-> FSub(b[j], FMul(learning_rate, grad[j]))]

\* math.isnan(loss): the only test of the loss.
Diverged(loss) == IsNaN(loss)

(***************************************************************************)
(* train_assistant_knowledge_base, step by step.  A run is the record of   *)
(* the call's locals; pc is the place the call has reached.                *)
(***************************************************************************)
MODEL_VERSION == 2

NewRun ==
    [pc |-> "prepare", err |-> NoError, chunks |-> <<>>, sources |-> <<>>,
     vocab |-> <<>>, tokenized |-> <<>>, vectors |-> <<>>, rng |-> 0,
     W1 |-> <<>>, b1 |-> <<>>, W2 |-> <<>>, b2 |-> <<>>, indices |-> <<>>,
     epoch |-> 0, start |-> 0, loss |-> Zero, embeddings |-> <<>>, state |-> <<>>]

\* TrainPrepare with the generator and the biases made before the dataset.
TrainPrepareAfterAllocation(cfg, run) ==
    LET data == PrepareDataset(cfg.repo_root, cfg.max_chars, cfg.min_frequency,
                               cfg.max_chunks)
        early == [run EXCEPT !.rng = Seeded(RngSeed), !.b1 = ZerosVector(cfg.hidden_size)]
    IN  IF data.err # NoError THEN [early EXCEPT !.pc = "raised", !.err = data.err]
        ELSE [early EXCEPT !.pc = "init", !.chunks = data.chunks,
                           !.sources = data.sources, !.vocab = data.vocab,
                           !.tokenized = data.tokenized]

\* lines 266-271: _prepare_dataset, whose errors end the call.
TrainPrepare(cfg, run) ==
    LET data == PrepareDataset(cfg.repo_root, cfg.max_chars, cfg.min_frequency,
                               cfg.max_chunks)
    IN  IF data.err # NoError THEN [run EXCEPT !.pc = "raised", !.err = data.err]
        ELSE [run EXCEPT !.pc = "init", !.chunks = data.chunks,
                         !.sources = data.sources, !.vocab = data.vocab,
                         !.tokenized = data.tokenized]

\* lines 273-283: the vectors, the generator and the four parameters.
TrainInit(cfg, run) ==
    LET vocab_size == Cardinality(DOMAIN run.vocab)
        rng == Seeded(RngSeed)
    IN  [run EXCEPT
            !.pc = "epoch",
            !.vectors = [i \in 1..Len(run.tokenized) |->
                            Vectorize(run.tokenized[i], run.vocab)],
            !.W1 = GaussMatrix(rng, vocab_size, cfg.hidden_size),
            !.b1 = ZerosVector(cfg.hidden_size),
            !.W2 = GaussMatrix(RngSkip(rng, vocab_size * cfg.hidden_size),
                               cfg.hidden_size, vocab_size),
            !.b2 = ZerosVector(vocab_size),
            !.rng = RngSkip(rng, 2 * vocab_size * cfg.hidden_size),
            !.indices = [i \in 1..Len(run.tokenized) |-> i - 1]]

\* lines 285-286: the next epoch starts with a shuffle.
TrainShuffle(cfg, run) ==
    LET shuffled == Shuffle(run.indices, run.rng)
    IN  [run EXCEPT !.pc = "batch", !.indices = shuffled.indices,
                    !.rng = shuffled.rng, !.start = 0]

\* BatchOf taking every batch from the head of the order: indices[0:end-start].
BatchOfFirstSamples(cfg, run) ==
    LET num_samples == Len(run.vectors)
        end == IF run.start + cfg.batch_size < num_samples
               THEN run.start + cfg.batch_size ELSE num_samples
    IN  [k \in 1..(end - run.start) |-> run.vectors[run.indices[k] + 1]]

\* batch = [vectors[idx] for idx in indices[start:end]]
BatchOf(cfg, run) ==
    LET num_samples == Len(run.vectors)
        end == IF run.start + cfg.batch_size < num_samples
               THEN run.start + cfg.batch_size ELSE num_samples
    IN  [k \in 1..(end - run.start) |-> run.vectors[run.indices[run.start + k] + 1]]

\* Updated with the decoder updated before the gradient of the hidden layer
\* is taken.
UpdatedDecoderFirst(cfg, run, batch, fwd) ==
    LET grad == Gradients(batch, fwd, run.W2)
        W2 == DescendMatrix(run.W2, grad.W2, cfg.learning_rate)
        late == Gradients(batch, fwd, W2)
    IN  [run EXCEPT !.W2 = W2,
                    !.b2 = DescendVector(run.b2, grad.b2, cfg.learning_rate),
                    !.W1 = DescendMatrix(run.W1, late.W1, cfg.learning_rate),
                    !.b1 = DescendVector(run.b1, late.b1, cfg.learning_rate)]

\* The parameters after the updates of lines 311-324.
Updated(cfg, run, batch, fwd) ==
    LET grad == Gradients(batch, fwd, run.W2)
    IN  [run EXCEPT !.W2 = DescendMatrix(run.W2, grad.W2, cfg.learning_rate),
                    !.b2 = DescendVector(run.b2, grad.b2, cfg.learning_rate),
                    !.W1 = DescendMatrix(run.W1, grad.W1, cfg.learning_rate),
                    !.b1 = DescendVector(run.b1, grad.b1, cfg.learning_rate)]

\* TrainBatch with the embeddings and the write inside the loop over epochs.
TrainBatchInsideEpoch(cfg, run) ==
    LET batch == BatchOf(cfg, run)
        fwd == Forward(batch, run.W1, run.b1, run.W2, run.b2)
        next == run.start + cfg.batch_size
        last == next >= Len(run.vectors)
    IN  IF Diverged(fwd.loss)
        THEN [run EXCEPT !.pc = "raised", !.err = NaNLossError, !.loss = fwd.loss]
        ELSE [Updated(cfg, run, batch, fwd) EXCEPT
                 !.loss = fwd.loss,
                 !.start = next,
                 !.epoch = IF last THEN run.epoch + 1 ELSE run.epoch,
                 !.pc = IF ~last THEN "batch" ELSE "embed"]

\* lines 287-324: one mini-batch; the loop ends the epoch after the last one.
TrainBatch(cfg, run) ==
    LET batch == BatchOf(cfg, run)
        fwd == Forward(batch, run.W1, run.b1, run.W2, run.b2)
        next == run.start + cfg.batch_size
        last == next >= Len(run.vectors)
    IN  IF Diverged(fwd.loss)
        THEN [run EXCEPT !.pc = "raised", !.err = NaNLossError, !.loss = fwd.loss]
        ELSE [Updated(cfg, run, batch, fwd) EXCEPT
                 !.loss = fwd.loss,
                 !.start = next,
                 !.epoch = IF last THEN run.epoch + 1 ELSE run.epoch,
                 !.pc = IF ~last THEN "batch"
                        ELSE IF run.epoch + 1 < cfg.epochs THEN "epoch" ELSE "embed"]

\* ModelState with the decoder persisted beside the encoder.
ModelStateWithDecoder(cfg, run, embeddings) ==
    <<[key |-> "version", val |-> MODEL_VERSION],
      [key |-> "vocab", val |-> run.vocab],
      [key |-> "hidden_size", val |-> cfg.hidden_size],
      [key |-> "encoder_weights", val |-> run.W1],
      [key |-> "encoder_bias", val |-> run.b1],
      [key |-> "decoder_weights", val |-> run.W2],
      [key |-> "decoder_bias", val |-> run.b2],
      [key |-> "chunk_texts", val |-> run.chunks],
      [key |-> "chunk_sources", val |-> run.sources],
      [key |-> "chunk_embeddings", val |-> embeddings]>>

\* lines 326-339: the embeddings and the state to persist.
ModelState(cfg, run, embeddings) ==
    <<[key |-> "version", val |-> MODEL_VERSION],
      [key |-> "vocab", val |-> run.vocab],
      [key |-> "hidden_size", val |-> cfg.hidden_size],
      [key |-> "encoder_weights", val |-> run.W1],
      [key |-> "encoder_bias", val |-> run.b1],
      [key |-> "chunk_texts", val |-> run.chunks],
      [key |-> "chunk_sources", val |-> run.sources],
      [key |-> "chunk_embeddings", val |-> embeddings]>>

TrainEmbed(cfg, run) ==
    LET embeddings ==
            NormalizeRows(Relu(MatrixAddVector(MatMul(run.vectors, run.W1), run.b1)))
    IN  [run EXCEPT !.pc = "open", !.embeddings = embeddings,
                    !.state = ModelState(cfg, run, embeddings)]

\* The computation of a whole call, up to the write or the exception.
RECURSIVE TrainRun(_, _)
TrainRun(cfg, run) ==
    CASE run.pc = "prepare" -> TrainRun(cfg, TrainPrepare(cfg, run))
      [] run.pc = "init" -> TrainRun(cfg, TrainInit(cfg, run))
      [] run.pc = "epoch" -> TrainRun(cfg, TrainShuffle(cfg, run))
      [] run.pc = "batch" -> TrainRun(cfg, TrainBatch(cfg, run))
      [] run.pc = "embed" -> TrainRun(cfg, TrainEmbed(cfg, run))
      [] OTHER -> run

(***************************************************************************)
(* The artifact file.  pickle.dump writes the items of the state in order  *)
(* and then the STOP opcode; a file is [kind |-> what the bytes encode,    *)
(* items |-> the items written, complete |-> whether STOP was written].    *)
(***************************************************************************)
Absent == [exists |-> FALSE, kind |-> "", items |-> <<>>, complete |-> FALSE]
PickleFile(items, complete) ==
    [exists |-> TRUE, kind |-> "dict", items |-> items, complete |-> complete]

\* output.open("wb"): the file exists and is empty.
Truncated == [exists |-> TRUE, kind |-> "", items |-> <<>>, complete |-> FALSE]

AssistantModelNotFoundError == [type |-> "AssistantModelNotFoundError", msg |-> "model path"]
EOFError == [type |-> "EOFError", msg |-> "Ran out of input"]
UnpicklingError == [type |-> "UnpicklingError", msg |-> "pickle data was truncated"]
AttributeError == [type |-> "AttributeError", msg |-> "object has no attribute get"]
KeyError == [type |-> "KeyError", msg |-> "missing key"]
VersionError ==
    [type |-> "RuntimeError", msg |-> "La version del modelo no coincide con la soportada"]
UnknownVocabularyError ==
    [type |-> "ValueError", msg |-> "La pregunta no contiene vocabulario conocido"]

\* PickleLoad losing the item written last.
PickleLoadWithoutLast(file) ==
    IF file.kind = "" /\ file.items = <<>>
    THEN [err |-> EOFError, kind |-> "", dict |-> <<>>]
    ELSE IF file.kind = "garbage" \/ ~file.complete
    THEN [err |-> UnpicklingError, kind |-> "", dict |-> <<>>]
    ELSE LET items == SubSeq(file.items, 1, Len(file.items) - 1)
         IN  [err |-> NoError, kind |-> file.kind,
              dict |-> [k \in {items[i].key : i \in DOMAIN items} |->
                           (CHOOSE it \in Range(items) : it.key = k).val]]

\* pickle.load(fh) on the bytes of file: [err, kind, dict]
PickleLoad(file) ==
    IF file.kind = "" /\ file.items = <<>>
    THEN [err |-> EOFError, kind |-> "", dict |-> <<>>]
    ELSE IF file.kind = "garbage" \/ ~file.complete
    THEN [err |-> UnpicklingError, kind |-> "", dict |-> <<>>]
    ELSE [err |-> NoError, kind |-> file.kind,
          dict |-> [k \in {file.items[i].key : i \in DOMAIN file.items} |->
                       (CHOOSE it \in Range(file.items) : it.key = k).val]]

(***************************************************************************)
(* sorted(range(n), key=..., reverse=True) as list.sort computes it for a  *)
(* list shorter than 64: reverse, find the first run, binary insertion of  *)
(* the rest, reverse.  a is the list of indices, keys[i + 1] the key of i. *)
(***************************************************************************)
Reverse(s) == [i \in 1..Len(s) |-> s[Len(s) + 1 - i]]

KeyLess(keys, i, j) == FLt(keys[i + 1], keys[j + 1])

RECURSIVE RunLength(_, _, _, _)
RunLength(keys, a, n, descending) ==
    IF n >= Len(a) THEN n
    ELSE IF KeyLess(keys, a[n + 1], a[n]) = descending
    THEN RunLength(keys, a, n + 1, descending) ELSE n

RECURSIVE Bisect(_, _, _, _, _)
Bisect(keys, a, pivot, l, r) ==
    LET p == l + ((r - l) \div 2)
        l1 == IF KeyLess(keys, pivot, a[p]) THEN l ELSE p + 1
        r1 == IF KeyLess(keys, pivot, a[p]) THEN p ELSE r
    IN  IF l1 < r1 THEN Bisect(keys, a, pivot, l1, r1) ELSE l1

RECURSIVE BinarySort(_, _, _)
BinarySort(keys, a, start) ==
    IF start > Len(a) THEN a
    ELSE LET l == Bisect(keys, a, a[start], 1, start)
         IN  BinarySort(keys,
                        SubSeq(a, 1, l - 1) \o <<a[start]>> \o SubSeq(a, l, start - 1)
                            \o SubSeq(a, start + 1, Len(a)),
                        start + 1)

SortedDescending(keys) ==
    LET n == Len(keys)
        a0 == Reverse([i \in 1..n |-> i - 1])
    IN  IF n < 2 THEN a0
        ELSE LET descending == KeyLess(keys, a0[2], a0[1])
                 run == RunLength(keys, a0, 2, descending)
                 a1 == IF descending
                       THEN Reverse(SubSeq(a0, 1, run)) \o SubSeq(a0, run + 1, n)
                       ELSE a0
             IN  Reverse(BinarySort(keys, a1, run + 1))

\* s[:k]
Prefix(s, k) ==
    IF k >= 0 THEN SubSeq(s, 1, IF k < Len(s) THEN k ELSE Len(s))
    ELSE SubSeq(s, 1, Len(s) + k)

Min(a, b) == IF a < b THEN a ELSE b

(***************************************************************************)
(* _load_state and generate_assistant_reply, step by step.  A query is the *)
(* record of the call's arguments and locals.                              *)
(***************************************************************************)
FallbackAnswer == <<"No encontre un fragmento relevante en el repositorio.">>

\* f"{score:.2f}"
Format2(score) ==
    IF IsNaN(score) THEN [text |-> "nan", hundredths |-> 0]
    ELSE IF score = PInf THEN [text |-> "inf", hundredths |-> 0]
    ELSE IF score = NInf THEN [text |-> "-inf", hundredths |-> 0]
    ELSE [text |-> "", hundredths |-> Rnd(score * 100, Scale)]

NewQuery(question, command_corpus, top_k_chunks, top_k_commands) ==
    [pc |-> "exists", err |-> NoError, question |-> question,
     command_corpus |-> command_corpus, top_k_chunks |-> top_k_chunks,
     top_k_commands |-> top_k_commands, kind |-> "", state |-> <<>>,
     tokenized |-> FALSE, question_tokens |-> <<>>, query_vector |-> <<>>,
     query_embedding |-> <<>>, similarities |-> <<>>, ordered_indices |-> <<>>,
     supporting |-> <<>>, command_refs |-> <<>>, cmd_scores |-> <<>>,
     ordered_cmd |-> <<>>, command_suggestions |-> <<>>, reply |-> <<>>,
     handler |-> "call", exit_code |-> None, printed |-> <<>>]

Raise(q, err) == [q EXCEPT !.pc = "raised", !.err = err]

\* LoadExists without the test of path.exists().
LoadExistsUnchecked(q, file) == [q EXCEPT !.pc = "open"]

\* line 354: path.exists()
LoadExists(q, file) ==
    IF ~file.exists THEN Raise(q, AssistantModelNotFoundError)
    ELSE [q EXCEPT !.pc = "open"]

\* line 356: path.open("rb")
LoadOpen(q, file) == [q EXCEPT !.pc = "read"]

\* line 357: pickle.load(fh) of what the file holds now.
LoadRead(q, file) ==
    LET loaded == PickleLoad(file)
    IN  IF loaded.err # NoError THEN Raise(q, loaded.err)
        ELSE [q EXCEPT !.pc = "version", !.kind = loaded.kind, !.state = loaded.dict]

\* LoadVersion reading the tag as state.get("version", MODEL_VERSION).
LoadVersionDefaulted(q) ==
    IF q.kind # "dict" THEN Raise(q, AttributeError)
    ELSE IF "version" \in DOMAIN q.state /\ q.state["version"] # MODEL_VERSION
    THEN Raise(q, VersionError)
    ELSE [q EXCEPT !.pc = "vectorize"]

\* lines 358-362: state.get("version") != MODEL_VERSION
LoadVersion(q) ==
    IF q.kind # "dict" THEN Raise(q, AttributeError)
    ELSE IF "version" \notin DOMAIN q.state \/ q.state["version"] # MODEL_VERSION
    THEN Raise(q, VersionError)
    ELSE [q EXCEPT !.pc = "vectorize"]

StateKeys ==
    {"vocab", "encoder_weights", "encoder_bias", "chunk_texts", "chunk_sources",
     "chunk_embeddings"}

\* ReplyVectorize without the test of sum(query_vector) == 0.0.
ReplyVectorizeUnchecked(q) ==
    IF ~(StateKeys \subseteq DOMAIN q.state) THEN Raise(q, KeyError)
    ELSE LET question_tokens == Tokenize(q.question)
             query_vector == Vectorize(question_tokens, q.state["vocab"])
         IN  [q EXCEPT !.pc = "rank", !.tokenized = TRUE,
                       !.question_tokens = question_tokens,
                       !.query_vector = query_vector]

\* lines 384-394: the fields of the state, the question's tokens and vector.
ReplyVectorize(q) ==
    IF ~(StateKeys \subseteq DOMAIN q.state) THEN Raise(q, KeyError)
    ELSE LET question_tokens == Tokenize(q.question)
             query_vector == Vectorize(question_tokens, q.state["vocab"])
             q1 == [q EXCEPT !.tokenized = TRUE, !.question_tokens = question_tokens,
                             !.query_vector = query_vector]
         IN  IF FEq(FSum(query_vector), Zero) THEN Raise(q1, UnknownVocabularyError)
             ELSE [q1 EXCEPT !.pc = "rank"]

\* lines 396-407: the ranked chunks.
ReplyRank(q) ==
    LET query_embedding ==
            Encode(q.query_vector, q.state["encoder_weights"], q.state["encoder_bias"])
        similarities == CosineSimilarity(q.state["chunk_embeddings"], query_embedding)
        top_k == Min(q.top_k_chunks, Len(similarities))
        ordered_indices == Prefix(SortedDescending(similarities), top_k)
    IN  [q EXCEPT
            !.pc = "commands",
            !.query_embedding = query_embedding,
            !.similarities = similarities,
            !.ordered_indices = ordered_indices,
            !.supporting =
                [k \in 1..Len(ordered_indices) |->
                    LET idx == ordered_indices[k]
                    IN  <<<<q.state["chunk_sources"][idx + 1][1],
                            Format2(similarities[idx + 1])>>,
                          Strip(q.state["chunk_texts"][idx + 1])>>]]

\* lines 413-419: the commands whose vector is not all zero, in corpus order.
RECURSIVE KnownCommands(_, _, _)
KnownCommands(command_corpus, vocab, i) ==
    IF i > Len(command_corpus) THEN <<>>
    ELSE LET tokens == Tokenize(command_corpus[i][1] \o <<" ">> \o command_corpus[i][2])
             vector == Vectorize(tokens, vocab)
             rest == KnownCommands(command_corpus, vocab, i + 1)
         IN  IF FEq(FSum(vector), Zero) THEN rest
             ELSE <<[name |-> command_corpus[i][1], vector |-> vector]>> \o rest

\* ReplyCommands keeping every supplied command, the all-zero ones included.
ReplyCommandsUnfiltered(q) ==
    LET known == [i \in 1..Len(q.command_corpus) |->
                     [name |-> q.command_corpus[i][1],
                      vector |-> Vectorize(Tokenize(q.command_corpus[i][1] \o <<" ">>
                                                        \o q.command_corpus[i][2]),
                                           q.state["vocab"])]]
        cmd_scores ==
            [k \in 1..Len(known) |->
                VectorDot(Encode(known[k].vector, q.state["encoder_weights"],
                                 q.state["encoder_bias"]),
                          q.query_embedding)]
        top_cmd == Min(q.top_k_commands, Len(cmd_scores))
        ordered_cmd == Prefix(SortedDescending(cmd_scores), top_cmd)
    IN  [q EXCEPT
            !.pc = "reply",
            !.command_refs = [k \in 1..Len(known) |-> known[k].name],
            !.cmd_scores = cmd_scores,
            !.ordered_cmd = ordered_cmd,
            !.command_suggestions =
                [k \in 1..Len(ordered_cmd) |->
                    <<known[ordered_cmd[k] + 1].name,
                      Format2(cmd_scores[ordered_cmd[k] + 1])>>]]

\* lines 409-427: the ranked commands.
ReplyCommands(q) ==
    LET known == KnownCommands(q.command_corpus, q.state["vocab"], 1)
        cmd_scores ==
            [k \in 1..Len(known) |->
                VectorDot(Encode(known[k].vector, q.state["encoder_weights"],
                                 q.state["encoder_bias"]),
                          q.query_embedding)]
        top_cmd == Min(q.top_k_commands, Len(cmd_scores))
        ordered_cmd == Prefix(SortedDescending(cmd_scores), top_cmd)
    IN  [q EXCEPT
            !.pc = "reply",
            !.command_refs = [k \in 1..Len(known) |-> known[k].name],
            !.cmd_scores = cmd_scores,
            !.ordered_cmd = ordered_cmd,
            !.command_suggestions =
                [k \in 1..Len(ordered_cmd) |->
                    <<known[ordered_cmd[k] + 1].name,
                      Format2(cmd_scores[ordered_cmd[k] + 1])>>]]

\* ReplyAnswer taking the suggested commands out of the supplied corpus.
ReplyAnswerConsuming(q) ==
    [q EXCEPT
        !.pc = "returned",
        !.command_corpus = <<>>,
        !.reply = [answer |-> IF q.supporting # <<>> THEN q.supporting[1][2]
                              ELSE FallbackAnswer,
                   supporting_chunks |-> q.supporting,
                   command_suggestions |-> q.command_suggestions]]

\* lines 429-430: the answer and the reply.
ReplyAnswer(q) ==
    [q EXCEPT
        !.pc = "returned",
        !.reply = [answer |-> IF q.supporting # <<>> THEN q.supporting[1][2]
                              ELSE FallbackAnswer,
                   supporting_chunks |-> q.supporting,
                   command_suggestions |-> q.command_suggestions]]

(***************************************************************************)
(* _handle_assistant_question of arkit8s.py around the call: handler is    *)
(* where the front end stands (in the call, returned, or left by an        *)
(* exception), printed what it has printed after its header.               *)
(***************************************************************************)
\* top_k_chunks and top_k_commands as the front end leaves them.
DefaultTopK == 3

\* The classes an except clause for class matches: the class and its bases.
Bases(type) ==
    IF type = "AssistantModelNotFoundError"
    THEN {"AssistantModelNotFoundError", "FileNotFoundError", "OSError", "Exception"}
    ELSE IF type = "KeyError" THEN {"KeyError", "LookupError", "Exception"}
    ELSE IF type = "UnpicklingError" THEN {"UnpicklingError", "PickleError", "Exception"}
    ELSE {type, "Exception"}

\* lines 2300-2332 of arkit8s.py, once the call has returned or raised.
HandleAssistantQuestion(q) ==
    IF q.pc = "returned"
    THEN [q EXCEPT !.handler = "returned", !.exit_code = Some(0),
                   !.printed = <<"answer">>
                       \o (IF q.reply.supporting_chunks # <<>>
                           THEN <<"Fragmentos relacionados">> ELSE <<>>)
                       \o (IF q.reply.command_suggestions # <<>>
                           THEN <<"Comandos sugeridos">> ELSE <<>>)]
    ELSE IF "AssistantModelNotFoundError" \in Bases(q.err.type)
    THEN [q EXCEPT !.handler = "returned", !.exit_code = Some(1),
                   !.printed = <<"No se encontro un modelo entrenado">>]
    ELSE IF "ValueError" \in Bases(q.err.type)
    THEN [q EXCEPT !.handler = "returned", !.exit_code = Some(1),
                   !.printed = <<"No se pudo interpretar la pregunta", q.err.msg,
                                 "Comandos frecuentes">>]
    ELSE [q EXCEPT !.handler = "escaped"]

(***************************************************************************)
(* Inputs of the model.                                                    *)
(***************************************************************************)
TextAB == <<"a", " ", "b", "\n", "\n", "a">>
TextC == <<"B", " ", "c">>
TextDots == <<".", ".">>

File(parts, text) == [parts |-> parts, is_file |-> TRUE, utf8 |-> TRUE, text |-> text]

TreeDocs ==
    [root |-> <<"repo">>,
     entries |-> <<File(<<"a.md">>, TextAB), File(<<"b.TXT">>, TextC),
                   File(<<"c.bin">>, TextAB),
                   [parts |-> <<"docs">>, is_file |-> FALSE, utf8 |-> TRUE, text |-> <<>>],
                   File(<<"tmp", "z.md">>, TextC)>>]
TreeOne ==
    [root |-> <<"repo">>, entries |-> <<File(<<"a.md">>, TextAB)>>]
TreeBare ==
    [root |-> <<"repo">>,
     entries |-> <<File(<<"a.md">>, TextDots), File(<<"c.bin">>, TextAB),
                   [parts |-> <<"z.md">>, is_file |-> TRUE, utf8 |-> FALSE, text |-> TextC]>>]

\* The same tree on a file system that lists its entries in the opposite order.
Relisted(tree) == [tree EXCEPT !.entries = Reverse(tree.entries)]

\* The same tree checked out below a directory named tmp.
TreeUnderTmp == [TreeDocs EXCEPT !.root = <<"tmp", "repo">>]

Trees == {TreeDocs, Relisted(TreeDocs), TreeOne, TreeBare, Relisted(TreeBare)}

\* max_chars: one paragraph per chunk, or the whole text in one chunk.
MaxCharsChoices == {3, 9}
LearningRates == {One, FromInt(100)}

\* The arguments of a training call; the caps of no chunk and of two chunks
\* and the tree below tmp go with the smallest network.
Configs ==
    [repo_root : Trees, epochs : 1..MaxEpochs, hidden_size : 1..MaxHidden,
     batch_size : 1..MaxBatch, max_chars : MaxCharsChoices, min_frequency : 1..3,
     max_chunks : {None, Some(1)}, learning_rate : LearningRates]
    \cup
    [repo_root : Trees \cup {TreeUnderTmp}, epochs : {1}, hidden_size : {1},
     batch_size : {1}, max_chars : MaxCharsChoices, min_frequency : 1..3,
     max_chunks : {None, Some(0), Some(2)}, learning_rate : {One}]

VARIABLES cfg, run, file, before, q

vars == <<cfg, run, file, before, q>>

(***************************************************************************)
(* A training call: cfg are its arguments, run its locals, file the        *)
(* artifact at the output path, before the artifact as the call found it.  *)
(***************************************************************************)
Prepare ==
    /\ run.pc = "prepare"
    /\ run' = TrainPrepare(cfg, run)
    /\ UNCHANGED <<cfg, file, before, q>>

InitParams ==
    /\ run.pc = "init"
    /\ run' = TrainInit(cfg, run)
    /\ UNCHANGED <<cfg, file, before, q>>

ShuffleEpoch ==
    /\ run.pc = "epoch"
    /\ run' = TrainShuffle(cfg, run)
    /\ UNCHANGED <<cfg, file, before, q>>

Batch ==
    /\ run.pc = "batch"
    /\ run' = TrainBatch(cfg, run)
    /\ UNCHANGED <<cfg, file, before, q>>

Embed ==
    /\ run.pc = "embed"
    /\ run' = TrainEmbed(cfg, run)
    /\ UNCHANGED <<cfg, file, before, q>>

\* line 341: output.open("wb") truncates the file in place.
OpenOutput ==
    /\ run.pc = "open"
    /\ file' = Truncated
    /\ run' = [run EXCEPT !.pc = "dump"]
    /\ UNCHANGED <<cfg, before, q>>

\* line 342: pickle.dump fills the buffer, which reaches the file in parts.
Flush ==
    /\ run.pc = "dump"
    /\ \E n \in 1..(Len(run.state) - 1) :
          /\ n > Len(file.items)
          /\ file' = PickleFile(SubSeq(run.state, 1, n), FALSE)
    /\ UNCHANGED <<cfg, run, before, q>>

\* leaving the with block: the rest is flushed and the file closed.
CloseOutput ==
    /\ run.pc = "dump"
    /\ file' = PickleFile(run.state, TRUE)
    /\ run' = [run EXCEPT !.pc = "done"]
    /\ UNCHANGED <<cfg, before, q>>

(***************************************************************************)
(* A query: _load_state, then the rest of generate_assistant_reply.        *)
(***************************************************************************)
Exists ==
    /\ q.pc = "exists"
    /\ q' = LoadExists(q, file)
    /\ UNCHANGED <<cfg, run, file, before>>

Open ==
    /\ q.pc = "open"
    /\ q' = LoadOpen(q, file)
    /\ UNCHANGED <<cfg, run, file, before>>

\* Read answering from a copy of the artifact kept from before the training
\* call instead of the file.
ReadKept ==
    /\ q.pc = "read"
    /\ q' = LoadRead(q, before)
    /\ UNCHANGED <<cfg, run, file, before>>

Read ==
    /\ q.pc = "read"
    /\ q' = LoadRead(q, file)
    /\ UNCHANGED <<cfg, run, file, before>>

Version ==
    /\ q.pc = "version"
    /\ q' = LoadVersion(q)
    /\ UNCHANGED <<cfg, run, file, before>>

VectorizeQuestion ==
    /\ q.pc = "vectorize"
    /\ q' = ReplyVectorize(q)
    /\ UNCHANGED <<cfg, run, file, before>>

Rank ==
    /\ q.pc = "rank"
    /\ q' = ReplyRank(q)
    /\ UNCHANGED <<cfg, run, file, before>>

Commands ==
    /\ q.pc = "commands"
    /\ q' = ReplyCommands(q)
    /\ UNCHANGED <<cfg, run, file, before>>

Answer ==
    /\ q.pc = "reply"
    /\ q' = ReplyAnswer(q)
    /\ UNCHANGED <<cfg, run, file, before>>

\* The front end after its call of generate_assistant_reply, which it makes
\* with the default top_k.
Handle ==
    /\ q.pc \in {"returned", "raised"}
    /\ q.handler = "call"
    /\ q.top_k_chunks = DefaultTopK
    /\ q.top_k_commands = DefaultTopK
    /\ q' = HandleAssistantQuestion(q)
    /\ UNCHANGED <<cfg, run, file, before>>

(***************************************************************************)
(* Spec: one training call and one concurrent load of the artifact.        *)
(***************************************************************************)
\* The artifact an earlier training call left.
EarlierConfig ==
    [repo_root |-> TreeOne, epochs |-> 1, hidden_size |-> 1, batch_size |-> 1,
     max_chars |-> 9, min_frequency |-> 1, max_chunks |-> None, learning_rate |-> One]
EarlierArtifact == PickleFile(TrainRun(EarlierConfig, NewRun).state, TRUE)

Init ==
    /\ cfg \in Configs
    /\ run = NewRun
    /\ file \in {Absent, EarlierArtifact}
    /\ before = file
    /\ q = NewQuery(<<>>, <<>>, 0, 0)

Next ==
    \/ Prepare \/ InitParams \/ ShuffleEpoch \/ Batch \/ Embed
    \/ OpenOutput \/ Flush \/ CloseOutput
    \/ Exists \/ Open \/ Read \/ Version

Spec == Init /\ [][Next]_vars

(***************************************************************************)
(* SpecQuery: one query against the artifact a training call left at the   *)
(* model path, or against what else may be found there.                    *)
(***************************************************************************)
TrainedDocs(epochs, hidden_size, learning_rate) ==
    [repo_root |-> TreeDocs, epochs |-> epochs, hidden_size |-> hidden_size,
     batch_size |-> 1, max_chars |-> 3, min_frequency |-> 1,
     max_chunks |-> None, learning_rate |-> learning_rate]

\* The training calls whose artifacts the queries read: learning rates 1.0,
\* 1.3, 7.4 and 100.0 give scores that differ, that tie, and that are NaN.
TrainingCalls ==
    {EarlierConfig, TrainedDocs(2, 2, One), TrainedDocs(1, 1, One),
     TrainedDocs(1, 2, 13), TrainedDocs(1, 2, 74), TrainedDocs(1, 2, FromInt(100))}

\* Those that reach the write.
QueryConfigs == {trained \in TrainingCalls : TrainRun(trained, NewRun).pc = "open"}

WithoutKey(items, key) ==
    LET kept == {i \in DOMAIN items : items[i].key # key}
    IN  [k \in 1..Cardinality(kept) |->
            items[CHOOSE i \in kept : Cardinality({j \in kept : j < i}) = k - 1]]

\* What the model path may hold when items is the state of a training call.
FilesOf(items) ==
    {Absent,
     Truncated,
     PickleFile(SubSeq(items, 1, 3), FALSE),
     [exists |-> TRUE, kind |-> "garbage", items |-> <<>>, complete |-> TRUE],
     [exists |-> TRUE, kind |-> "list", items |-> items, complete |-> TRUE],
     PickleFile(<<[key |-> "version", val |-> MODEL_VERSION - 1]>> \o Tail(items), TRUE),
     PickleFile(WithoutKey(items, "version"), TRUE),
     PickleFile(WithoutKey(items, "chunk_embeddings"), TRUE),
     PickleFile(items, TRUE)}

Questions == {<<>>, <<".">>, <<"a">>, <<"C">>, <<"b", " ", "c">>}

Command(name, description) == <<name, description>>
CommandCorpora ==
    {<<>>,
     <<Command(<<".">>, <<".">>)>>,
     <<Command(<<"a">>, <<"b">>), Command(<<"c">>, <<".">>), Command(<<"b">>, <<"a">>),
       Command(<<".">>, <<>>)>>}

TopKChoices == (0 - 1)..MaxTopK

InitQuery ==
    /\ \E trained \in QueryConfigs :
          /\ cfg = trained
          /\ file \in FilesOf(TrainRun(trained, NewRun).state)
    /\ run = NewRun
    /\ before = file
    /\ \E question \in Questions, command_corpus \in CommandCorpora,
          top_k \in (TopKChoices \X TopKChoices) \cup {<<DefaultTopK, DefaultTopK>>} :
          q = NewQuery(question, command_corpus, top_k[1], top_k[2])

NextQuery ==
    \/ Exists \/ Open \/ Read \/ Version
    \/ VectorizeQuestion \/ Rank \/ Commands \/ Answer
    \/ Handle

SpecQuery == InitQuery /\ [][NextQuery]_vars

(***************************************************************************)
(* SpecDataset: the start of a training call, up to the vectors and the    *)
(* parameters (lines 266-283), on a repository of one document made of     *)
(* paragraphs.                                                             *)
(***************************************************************************)
MaxParagraphs == 3
MaxChars == 4

ParagraphTexts == {<<"a">>, <<"B">>, <<"b", " ", "a">>, <<"c">>, <<".">>}

\* What re.split(r"\n\s*\n") takes for the end of a paragraph.
Separators == {<<"\n", "\n">>, <<"\n", " ", "\n">>}

\* The documents of n paragraphs; those of none are empty or blank.
RECURSIVE Documents(_)
Documents(n) ==
    IF n = 0 THEN {<<>>, <<" ", "\n", "\n">>}
    ELSE IF n = 1 THEN ParagraphTexts
    ELSE {document \o separator \o paragraph :
             document \in Documents(n - 1), separator \in Separators,
             paragraph \in ParagraphTexts}

Texts == UNION {Documents(n) : n \in 0..MaxParagraphs}

DatasetConfigs ==
    [repo_root : {[root |-> <<"repo">>, entries |-> <<File(<<"a.md">>, text)>>] :
                     text \in Texts},
     epochs : {1}, hidden_size : {1}, batch_size : {1}, max_chars : 1..MaxChars,
     min_frequency : 1..3, max_chunks : {None}, learning_rate : {One}]

InitDataset ==
    /\ cfg \in DatasetConfigs
    /\ run = NewRun
    /\ file = Absent
    /\ before = file
    /\ q = NewQuery(<<>>, <<>>, 0, 0)

NextDataset == Prepare \/ InitParams

SpecDataset == InitDataset /\ [][NextDataset]_vars

(***************************************************************************)
(* Properties of the training call and the concurrent load (Spec).         *)
(***************************************************************************)
\* What a load of a whole artifact returns.
WholeState(items) == PickleLoad(PickleFile(items, TRUE)).dict

\* C1: a load that runs while a training call writes the artifact never sees a
\* partly written file: it returns the whole state the call found or the whole
\* state the call writes, and fails only when the call found no artifact.
C1_LoadSeesWholeArtifact ==
    /\ q.pc \in {"version", "vectorize"} =>
           \/ before.exists /\ q.state = WholeState(before.items)
           \/ run.pc \in {"dump", "done"} /\ q.state = WholeState(run.state)
    /\ q.pc = "raised" => ~before.exists /\ q.err = AssistantModelNotFoundError

\* C2: a mini-batch whose loss is NaN or an infinity ends the call with the
\* divergence error, and the four parameters keep the values they had.
C2_NonFiniteLossAborts ==
    [][(/\ run.pc = "batch"
        /\ run'.pc # "batch" \/ run'.start # run.start
        /\ ~IsFinite(Forward(BatchOf(cfg, run), run.W1, run.b1, run.W2, run.b2).loss))
       => (/\ run'.pc = "raised"
           /\ run'.err = NaNLossError
           /\ <<run'.W1, run'.b1, run'.W2, run'.b2>> = <<run.W1, run.b1, run.W2, run.b2>>)]_vars

\* C3: the artifact changes only once the last batch of the last epoch is done
\* and the embeddings are computed, it ends as the state of that call, and a
\* call that raises leaves the file as it found it.
C3_ArtifactWrittenOnceAtEnd ==
    /\ run.pc \in {"prepare", "init", "epoch", "batch", "embed", "open", "raised"} =>
           file = before
    /\ run.pc \in {"dump", "done"} =>
           /\ run.epoch = cfg.epochs
           /\ run.start >= Len(run.vectors)
           /\ Len(run.embeddings) = Len(run.chunks)
           /\ run.state = ModelState(cfg, run, run.embeddings)
    /\ run.pc = "done" => file = PickleFile(run.state, TRUE)
    /\ run.pc = "raised" => run.err \in {EmptyCorpusError, EmptyVocabularyError, NaNLossError}

\* A call of two epochs replaced the artifact of an earlier call.
C3_Witness ==
    /\ run.pc = "done"
    /\ cfg.epochs = 2
    /\ before = EarlierArtifact
    /\ file # before

(***************************************************************************)
(* Properties of a query (SpecQuery).                                      *)
(***************************************************************************)
\* The load is over: the query is past _load_state or has raised.
Loading == q.pc \in {"exists", "open", "read", "version"}

\* C4: with no file at the model path the query raises the not-found error,
\* whatever the question and the commands, and it has then neither tokenized
\* the question nor looked at a vocabulary.
C4_MissingArtifactRaisesFirst ==
    (~file.exists /\ q.pc # "exists") =>
        /\ q.pc = "raised"
        /\ q.err = AssistantModelNotFoundError
        /\ ~q.tokenized
        /\ q.question_tokens = <<>>
        /\ q.query_vector = <<>>
        /\ q.reply = <<>>

\* The file is missing and the question has no known token either.
C4_Witness ==
    /\ ~file.exists
    /\ q.pc = "raised"
    /\ q.question = <<".">>
    /\ q.command_corpus # <<>>

\* C5: a pickled state whose version is not MODEL_VERSION, or that has none,
\* ends the query with the version error, an error of another class than the
\* not-found and the unknown-vocabulary errors, before any field is used.
C5_VersionMismatchRaises ==
    LET loaded == PickleLoad(file)
        mismatched ==
            /\ file.exists
            /\ loaded.err = NoError
            /\ loaded.kind = "dict"
            /\ "version" \notin DOMAIN loaded.dict \/ loaded.dict["version"] # MODEL_VERSION
    IN  (mismatched /\ ~Loading) =>
            /\ q.pc = "raised"
            /\ q.err = VersionError
            /\ q.err.type \notin {AssistantModelNotFoundError.type,
                                  UnknownVocabularyError.type}
            /\ ~q.tokenized
            /\ q.supporting = <<>>
            /\ q.reply = <<>>

\* A state of an older version was loaded and refused.
C5_Witness ==
    /\ q.pc = "raised"
    /\ q.err = VersionError
    /\ "version" \in DOMAIN q.state
    /\ q.question = <<"a">>

\* C6: a file that is cut short, is no pickle, or holds something else than a
\* model state ends the query with the not-found or the version error, and
\* nothing of it is used.
C6_CorruptArtifactRefused ==
    LET loaded == PickleLoad(file)
        corrupt ==
            /\ file.exists
            /\ \/ loaded.err # NoError
               \/ loaded.kind # "dict"
               \/ ~(StateKeys \subseteq DOMAIN loaded.dict)
    IN  corrupt =>
            /\ q.pc \in {"exists", "open", "read", "version", "vectorize", "raised"}
            /\ q.pc = "raised" => q.err \in {AssistantModelNotFoundError, VersionError}

\* C7: a question none of whose tokens is in the vocabulary of the loaded
\* state, a question without tokens included, raises the unknown-vocabulary
\* error and builds no reply.
C7_UnknownVocabularyRaises ==
    (/\ q.pc \in {"rank", "commands", "reply", "returned"} \/ (q.pc = "raised" /\ q.tokenized)
     /\ Range(Tokenize(q.question)) \cap DOMAIN q.state["vocab"] = {}) =>
        /\ q.pc = "raised"
        /\ q.err = UnknownVocabularyError
        /\ q.supporting = <<>>
        /\ q.command_suggestions = <<>>
        /\ q.reply = <<>>

\* The question has a token, and the vocabulary does not.
C7_Witness ==
    /\ q.pc = "raised"
    /\ q.err = UnknownVocabularyError
    /\ q.question_tokens = <<<<"c">>>>
    /\ q.command_corpus # <<>>

\* order lists indices of scores from the best on: every listed index is before
\* every later or unlisted one, by greater score or by equal score and smaller
\* index.
Before(scores, i, j) ==
    \/ FGt(scores[i + 1], scores[j + 1])
    \/ FEq(scores[i + 1], scores[j + 1]) /\ i < j

Ranked(scores, order) ==
    /\ \A k, l \in DOMAIN order : k < l => Before(scores, order[k], order[l])
    /\ \A i \in Range(order) :
          \A j \in (0..(Len(scores) - 1)) \ Range(order) : Before(scores, i, j)

\* C8: the chunks of a reply are in non-increasing order of score, none left
\* out scores higher than one listed, and equal scores keep the order of the
\* stored chunks; likewise the commands.
C8_RankedByScoreThenIndex ==
    q.pc = "returned" =>
        /\ Ranked(q.similarities, q.ordered_indices)
        /\ Ranked(q.cmd_scores, q.ordered_cmd)

\* C9: a reply has at most max(top_k_chunks, 0) chunks and at most
\* max(top_k_commands, 0) commands.
C9_TopKBoundsTheReply ==
    q.pc = "returned" =>
        /\ Len(q.reply.supporting_chunks) <=
               (IF q.top_k_chunks > 0 THEN q.top_k_chunks ELSE 0)
        /\ Len(q.reply.command_suggestions) <=
               (IF q.top_k_commands > 0 THEN q.top_k_commands ELSE 0)

\* C10: when chunks were scored the answer is the text of one that no other
\* outscores, the first of supporting_chunks; the fallback is the answer only
\* when no chunk was scored.
C10_AnswerIsTheBestChunk ==
    q.pc = "returned" =>
        /\ q.similarities # <<>> =>
               /\ q.reply.supporting_chunks # <<>>
               /\ q.reply.answer = q.reply.supporting_chunks[1][2]
               /\ \E i \in DOMAIN q.similarities :
                     /\ q.reply.answer = Strip(q.state["chunk_texts"][i])
                     /\ \A j \in DOMAIN q.similarities :
                           ~FLt(q.similarities[i], q.similarities[j])
        /\ q.reply.answer = FallbackAnswer => q.similarities = <<>>

\* The supplied pairs whose name and description hold a token of the vocabulary.
KnownPairs ==
    {i \in DOMAIN q.command_corpus :
        Range(Tokenize(q.command_corpus[i][1] \o <<" ">> \o q.command_corpus[i][2]))
            \cap DOMAIN q.state["vocab"] # {}}

\* The reply of the same query when no command is supplied.
ReplyWithoutCommands ==
    ReplyAnswer(ReplyCommands(ReplyRank([q EXCEPT !.command_corpus = <<>>]))).reply

\* C11: every suggested command is the name of a supplied pair that has a token
\* of the vocabulary, so a pair whose vector is all zero is never suggested and
\* there are no more suggestions than such pairs; with no commands supplied
\* there are no suggestions; and the answer and the supporting chunks are the
\* ones the query gets with no commands supplied.
C11_CommandsSuggestedFromKnownPairs ==
    /\ q.pc \in {"reply", "returned"} =>
           /\ \A k \in DOMAIN q.command_suggestions :
                 \E i \in KnownPairs : q.command_corpus[i][1] = q.command_suggestions[k][1]
           /\ Len(q.command_suggestions) <= Cardinality(KnownPairs)
           /\ q.command_corpus = <<>> => q.command_suggestions = <<>>
    /\ q.pc = "returned" =>
           /\ q.reply.command_suggestions = q.command_suggestions
           /\ q.reply.answer = ReplyWithoutCommands.answer
           /\ q.reply.supporting_chunks = ReplyWithoutCommands.supporting_chunks
           /\ ReplyWithoutCommands.command_suggestions = <<>>

\* Four commands were supplied, one of them without a known token, and two of
\* the three others are suggested next to a chunk.
C11_Witness ==
    /\ q.pc = "returned"
    /\ Len(q.command_corpus) = 4
    /\ Cardinality(KnownPairs) = 3
    /\ Len(q.reply.command_suggestions) = 2
    /\ q.reply.supporting_chunks # <<>>

(***************************************************************************)
(* Properties of the dataset (SpecDataset).                                *)
(***************************************************************************)
\* The dataset is built: the call is past _prepare_dataset.
Prepared == run.pc \in {"init", "epoch"}

\* The number of times token occurs in the tokenized corpus.
GlobalFrequency(token) ==
    LET places == UNION {{<<i, j>> : j \in DOMAIN run.tokenized[i]} :
                             i \in DOMAIN run.tokenized}
    IN  Cardinality({ij \in places : run.tokenized[ij[1]][ij[2]] = token})

\* C12: the vocabulary holds exactly the tokens of the corpus whose frequency
\* is at least min_frequency; its indices are 0..N-1, each used once, and a
\* token has a smaller index than another exactly when it is more frequent or
\* as frequent and smaller as a string; index 0 is a most frequent token.
C12_VocabularyByFrequencyThenToken ==
    Prepared =>
        LET kept == {t \in UNION {Range(run.tokenized[i]) : i \in DOMAIN run.tokenized} :
                        GlobalFrequency(t) >= cfg.min_frequency}
        IN  /\ DOMAIN run.vocab = kept
            /\ {run.vocab[t] : t \in kept} = 0..(Cardinality(kept) - 1)
            /\ \A t, u \in kept :
                  run.vocab[t] < run.vocab[u] <=>
                      \/ GlobalFrequency(t) > GlobalFrequency(u)
                      \/ GlobalFrequency(t) = GlobalFrequency(u) /\ StrLess(t, u)
            /\ \A t, u \in kept :
                  run.vocab[t] = 0 => GlobalFrequency(u) <= GlobalFrequency(t)

\* The token c occurs twice and gets index 0, before a and b, which tie.
C12_Witness ==
    /\ Prepared
    /\ cfg.min_frequency = 1
    /\ DOMAIN run.vocab = {<<"a">>, <<"b">>, <<"c">>}
    /\ run.vocab[<<"c">>] = 0
    /\ run.vocab[<<"a">>] = 1
    /\ run.vocab[<<"b">>] = 2

\* C13: for the corpus of the call, every threshold up to min_frequency gives
\* a vocabulary that contains the call's, and every threshold from
\* min_frequency on gives one the call's contains.
C13_VocabularyShrinksWithThreshold ==
    Prepared =>
        \A m \in 1..(MaxParagraphs + 2) :
            LET other == DOMAIN BuildVocabulary(run.tokenized, m)
            IN  /\ m <= cfg.min_frequency =>
                      /\ DOMAIN run.vocab \subseteq other
                      /\ Cardinality(DOMAIN run.vocab) <= Cardinality(other)
                /\ m >= cfg.min_frequency =>
                      /\ other \subseteq DOMAIN run.vocab
                      /\ Cardinality(other) <= Cardinality(DOMAIN run.vocab)

\* The threshold 2 left a vocabulary, and a smaller one than the threshold 1.
C13_Witness ==
    /\ Prepared
    /\ cfg.min_frequency = 2
    /\ DOMAIN run.vocab # {}
    /\ DOMAIN run.vocab # DOMAIN BuildVocabulary(run.tokenized, 1)
    /\ DOMAIN BuildVocabulary(run.tokenized, 3) # DOMAIN run.vocab

\* The positions of tokens that hold a token of vocab.
KnownAt(tokens, vocab) == {j \in DOMAIN tokens : tokens[j] \in DOMAIN vocab}

\* What C14 says of one vector but the sum: its length, its sign, its entries
\* and that unknown tokens do not matter.
VectorOf(vector, tokens, vocab) ==
    LET known == KnownAt(tokens, vocab)
    IN  /\ Len(vector) = Cardinality(DOMAIN vocab)
        /\ \A k \in DOMAIN vector : IsFinite(vector[k]) /\ vector[k] >= Zero
        /\ known # {} =>
               \A t \in DOMAIN vocab :
                   vector[vocab[t] + 1] =
                       FDiv(FromInt(Cardinality({j \in known : tokens[j] = t})),
                            FromInt(Cardinality(known)))
        /\ known = {} => \A k \in DOMAIN vector : vector[k] = Zero
        /\ vector = Vectorize(SelectSeq(tokens, LAMBDA t : t \in DOMAIN vocab), vocab)

DocumentText == cfg.repo_root.entries[1].text

\* The characters of paragraphs from..to, separators not counted.
RECURSIVE PackedSize(_, _, _)
PackedSize(paragraphs, from, to) ==
    IF from > to THEN 0
    ELSE Len(paragraphs[from]) + PackedSize(paragraphs, from + 1, to)

\* chunks are paragraphs cut after the paragraphs of cuts: chunk k joins the
\* paragraphs after cut k - 1 up to cut k.
CutAt(paragraphs, cuts, chunks) ==
    LET ends == cuts \cup {Len(paragraphs)}
        Start(j) == 1 + (CHOOSE c \in cuts \cup {0} :
                            c < j /\ \A d \in cuts : d < j => d <= c)
    IN  /\ Len(chunks) = Cardinality(ends)
        /\ \A j \in ends :
              chunks[Cardinality({c \in ends : c <= j})] =
                  Join(SubSeq(paragraphs, Start(j), j))
        /\ \A j \in 1..(Len(paragraphs) - 1) :
              j \in cuts <=>
                  PackedSize(paragraphs, Start(j), j) + Len(paragraphs[j + 1]) > cfg.max_chars

\* C15: the chunks of a document are its paragraphs in order, joined by blank
\* lines; a chunk ends after a paragraph exactly when the paragraphs packed in
\* it and the next paragraph together have more than max_chars characters; a
\* paragraph of more than max_chars characters is a chunk of its own, whole;
\* a document without a paragraph has no chunk; and the dataset holds the
\* chunks that have a token, in that order.
C15_ChunksPackedGreedily ==
    run.pc # "prepare" =>
        LET paragraphs == Paragraphs(DocumentText)
            chunks == ChunkText(DocumentText, cfg.max_chars)
        IN  /\ paragraphs = <<>> => chunks = <<>>
            /\ paragraphs # <<>> =>
                   \E cuts \in SUBSET (1..(Len(paragraphs) - 1)) :
                       CutAt(paragraphs, cuts, chunks)
            /\ \A j \in DOMAIN paragraphs :
                   Len(paragraphs[j]) > cfg.max_chars =>
                       \E k \in DOMAIN chunks : chunks[k] = paragraphs[j]
            /\ Prepared =>
                   run.chunks = SelectSeq(chunks, LAMBDA chunk : Tokenize(chunk) # <<>>)

\* Two paragraphs were packed into one chunk, which the third, longer than
\* max_chars, closed and follows whole.
C15_Witness ==
    /\ Prepared
    /\ cfg.max_chars = 2
    /\ Len(Paragraphs(DocumentText)) = 3
    /\ Len(run.chunks) = 2
    /\ Len(run.chunks[2]) = 3
    /\ run.chunks[2] = Paragraphs(DocumentText)[3]

\* C16: a chunk of more than max_chars characters, the blank lines between its
\* paragraphs counted, is a single paragraph of the document.
C16_PackedChunksWithinMaxChars ==
    run.pc # "prepare" =>
        LET chunks == ChunkText(DocumentText, cfg.max_chars)
        IN  \A k \in DOMAIN chunks :
                Len(chunks[k]) > cfg.max_chars =>
                    chunks[k] \in Range(Paragraphs(DocumentText))

\* C17: a call on a document none of whose chunks has a token raises the
\* empty-corpus error; a call on a document with such chunks but no token as
\* frequent as min_frequency raises the empty-vocabulary error, which is of
\* another kind, a kind being the class of the exception.
C17_DatasetErrorsOfDistinctKinds ==
    run.pc # "prepare" =>
        LET chunks == SelectSeq(ChunkText(DocumentText, cfg.max_chars),
                                LAMBDA chunk : Tokenize(chunk) # <<>>)
            tokens == Tokenize(DocumentText)
            frequent == {t \in Range(tokens) :
                            Cardinality({j \in DOMAIN tokens : tokens[j] = t})
                                >= cfg.min_frequency}
        IN  /\ chunks = <<>> => run.pc = "raised" /\ run.err = EmptyCorpusError
            /\ (chunks # <<>> /\ frequent = {}) =>
                   /\ run.pc = "raised"
                   /\ run.err = EmptyVocabularyError
                   /\ run.err.type # EmptyCorpusError.type
            /\ (chunks # <<>> /\ frequent # {}) => run.pc # "raised"

(***************************************************************************)
(* More properties of the training call (Spec).                            *)
(***************************************************************************)
\* C18: a call that raised the empty-corpus or the empty-vocabulary error has
\* made no generator, no vectors, none of W1, b1, W2, b2 and no list of
\* indices, has started no epoch, and has left the artifact alone.
C18_DatasetErrorsBeforeAllocation ==
    (run.pc = "raised" /\ run.err \in {EmptyCorpusError, EmptyVocabularyError}) =>
        /\ run.rng = NewRun.rng
        /\ run.vectors = <<>>
        /\ <<run.W1, run.b1, run.W2, run.b2>> = <<<<>>, <<>>, <<>>, <<>>>>
        /\ run.indices = <<>>
        /\ run.epoch = 0
        /\ run.start = 0
        /\ file = before

\* The threshold removed every token of a repository that has chunks.
C18_Witness ==
    /\ run.pc = "raised"
    /\ run.err = EmptyVocabularyError
    /\ cfg.repo_root = TreeDocs
    /\ cfg.hidden_size = 2
    /\ before = EarlierArtifact

\* The call of cfg repeated on the same tree, in each order the model lists it.
Repeated ==
    {[cfg EXCEPT !.repo_root = tree] :
        tree \in {t \in Trees : /\ t.root = cfg.repo_root.root
                                /\ Range(t.entries) = Range(cfg.repo_root.entries)}}

\* The indices and the generator after the shuffles of the first epochs, from
\* the generator the parameters left.
RECURSIVE ShuffledFor(_, _, _)
ShuffledFor(num_samples, rng, epochs) ==
    IF epochs = 0 THEN [indices |-> [i \in 1..num_samples |-> i - 1], rng |-> rng]
    ELSE LET earlier == ShuffledFor(num_samples, rng, epochs - 1)
         IN  Shuffle(earlier.indices, earlier.rng)

\* C19: a repeated call, whatever the order in which the file system lists the
\* tree, fails with the same error or has the same chunks in the same order,
\* the same sources and the same vocabulary, and ends with the same parameters,
\* embeddings and state; the batches of an epoch are the shuffle that the seed,
\* vocab_size, hidden_size, the number of samples and the epoch determine, and
\* the call has then drawn 2 * vocab_size * hidden_size numbers and one per
\* swap of each shuffle.  The calls are compared when the dataset is built and
\* when the call ends, in the states where the load has not started.
C19_TrainingIsDeterministic ==
    LET vocab_size == Cardinality(DOMAIN run.vocab)
        num_samples == Len(run.tokenized)
        seeded == RngSkip(Seeded(RngSeed), 2 * vocab_size * cfg.hidden_size)
    IN  /\ (run.pc \in {"init", "open", "raised"} /\ q.pc = "exists") =>
               \A other \in Repeated :
                   LET again == IF run.pc = "init" THEN TrainPrepare(other, NewRun)
                                ELSE TrainRun(other, NewRun)
                   IN  /\ again.pc = run.pc
                       /\ again.err = run.err
                       /\ <<again.chunks, again.sources, again.vocab, again.tokenized>>
                              = <<run.chunks, run.sources, run.vocab, run.tokenized>>
                       /\ <<again.W1, again.b1, again.W2, again.b2>>
                              = <<run.W1, run.b1, run.W2, run.b2>>
                       /\ again.embeddings = run.embeddings
                       /\ again.state = run.state
        /\ run.pc = "batch" =>
               /\ run.indices = ShuffledFor(num_samples, seeded, run.epoch + 1).indices
               /\ run.rng = RngSkip(seeded, (run.epoch + 1) * (num_samples - 1))
        /\ run.pc = "open" =>
               run.rng = RngSkip(seeded, cfg.epochs * (num_samples - 1))

\* A call of two epochs on three chunks is over; the file system listed the
\* tree from its last entry to its first.
C19_Witness ==
    /\ run.pc = "open"
    /\ cfg.repo_root = Relisted(TreeDocs)
    /\ cfg.epochs = 2
    /\ cfg.max_chars = 3
    /\ Len(run.chunks) = 3
    /\ Cardinality(Repeated) = 2
    /\ q.pc = "exists"

\* What _load_state returns, or how it ends, on the file as it is now.
Loaded ==
    LoadVersion(LoadRead(LoadOpen(LoadExists(NewQuery(<<>>, <<>>, 0, 0), file), file), file))

EmbeddingsMet ==
    IF q.pc \in {"reply", "returned"}
    THEN LET known == KnownCommands(q.command_corpus, q.state["vocab"], 1)
         IN  Range(q.state["chunk_embeddings"]) \cup {q.query_embedding}
                 \cup {Encode(known[k].vector, q.state["encoder_weights"],
                              q.state["encoder_bias"]) : k \in DOMAIN known}
    ELSE {}

\* C21: every embedding has finite entries and an L2 norm of 1, to the unit
\* the arithmetic rounds to, unless the squares of its entries are all zero
\* to that precision (the activation was zero and so is the embedding).
C21_EmbeddingsHaveUnitNorm ==
    \A embedding \in EmbeddingsMet :
        LET norm == FSqrt(FSum(Squares(embedding)))
        IN  /\ \A j \in DOMAIN embedding : IsFinite(embedding[j])
            /\ \/ norm = Zero
               \/ One - 1 <= norm /\ norm <= One + 1

(***************************************************************************)
(* Properties of the scan of the corpus (Spec).                            *)
(***************************************************************************)
\* The files of the tree that the scan is to index, by their paths below the
\* root: regular files with an extension of the allow-list that decode as
\* UTF-8, lie in no directory named tmp of the tree, and have a chunk with a
\* token.
FilesToIndex ==
    {entry.parts : entry \in
        {e \in Range(cfg.repo_root.entries) :
            /\ e.is_file
            /\ LowerSuffix(e.parts[Len(e.parts)]) \in candidate_extensions
            /\ e.utf8
            /\ "tmp" \notin Range(SubSeq(e.parts, 1, Len(e.parts) - 1))
            /\ \E k \in DOMAIN ChunkText(e.text, cfg.max_chars) :
                  Tokenize(ChunkText(e.text, cfg.max_chars)[k]) # <<>>}}

\* C22: without a cap, the files the dataset has chunks of are exactly the
\* files to index, wherever the root lies; the empty-corpus error is raised
\* exactly when there is none.
C22_ScanIndexesEligibleFiles ==
    (run.pc # "prepare" /\ cfg.max_chunks = None) =>
        /\ run.err = EmptyCorpusError <=> FilesToIndex = {}
        /\ run.err \in {NoError, NaNLossError} =>
               {run.sources[k][1] : k \in DOMAIN run.sources} = FilesToIndex

\* The chunks an uncapped scan of the same tree collects, in scan order.
EveryChunk ==
    ScanFiles(cfg.repo_root.root, SortedEntries(cfg.repo_root.entries), 1,
              cfg.max_chars, None,
              [tokenized |-> <<>>, chunks |-> <<>>, sources |-> <<>>,
               collected |-> 0])

\* C23: with a cap k the dataset has at most k chunks, the first ones of the
\* scan, their sources beside them; without a cap it has every chunk.
C23_ChunkCapBoundsDataset ==
    (run.pc # "prepare" /\ run.err \notin {EmptyCorpusError, EmptyVocabularyError}) =>
        /\ Len(run.sources) = Len(run.chunks)
        /\ run.chunks = SubSeq(EveryChunk.chunks, 1, Len(run.chunks))
        /\ run.sources = SubSeq(EveryChunk.sources, 1, Len(run.sources))
        /\ IF cfg.max_chunks = None THEN run.chunks = EveryChunk.chunks
           ELSE Len(run.chunks) <= cfg.max_chunks[1]

Persisted == PickleLoad(file).dict

\* C25: the artifact of a finished call holds the eight fields and no other,
\* the version is the schema's, and the shapes agree: as many texts, sources
\* and embeddings, at least one; a row of hidden_size weights for each token
\* of the vocabulary; hidden_size entries in the bias and in every embedding.
C25_PersistedStateWellFormed ==
    run.pc = "done" =>
        /\ PickleLoad(file).err = NoError
        /\ PickleLoad(file).kind = "dict"
        /\ Len(file.items) = 8
        /\ DOMAIN Persisted = StateKeys \cup {"version", "hidden_size"}
        /\ Persisted["version"] = MODEL_VERSION
        /\ Persisted["hidden_size"] = cfg.hidden_size
        /\ Len(Persisted["chunk_texts"]) >= 1
        /\ Len(Persisted["chunk_sources"]) = Len(Persisted["chunk_texts"])
        /\ Len(Persisted["chunk_embeddings"]) = Len(Persisted["chunk_texts"])
        /\ Len(Persisted["encoder_weights"]) = Cardinality(DOMAIN Persisted["vocab"])
        /\ Len(Persisted["encoder_weights"]) >= 1
        /\ \A i \in DOMAIN Persisted["encoder_weights"] :
              Len(Persisted["encoder_weights"][i]) = cfg.hidden_size
        /\ Len(Persisted["encoder_bias"]) = cfg.hidden_size
        /\ \A i \in DOMAIN Persisted["chunk_embeddings"] :
              Len(Persisted["chunk_embeddings"][i]) = cfg.hidden_size
\* A call has persisted several chunks, tokens and hidden units.
C25_Witness ==
    /\ run.pc = "done"
    /\ Len(Persisted["chunk_texts"]) >= 2
    /\ Cardinality(DOMAIN Persisted["vocab"]) >= 2
    /\ cfg.hidden_size >= 2
    /\ run.W2 # <<>>

\* C26: at every mini-batch the shuffled order is a permutation of the sample
\* indices; the batch is the batch_size samples that follow the ones already
\* processed in this epoch, or the fewer that are left, and at least one; the
\* epoch ends with the batch that reaches the last sample, which is update
\* number ceil(num_samples / batch_size) of the epoch, and the call goes on
\* to the embeddings after epochs of them.
C26_EachSampleOncePerEpoch ==
    [][(run.pc = "batch" /\ run' # run) =>
          LET num_samples == Len(run.vectors)
              batch == BatchOf(cfg, run)
              updates == (num_samples + cfg.batch_size - 1) \div cfg.batch_size
          IN  /\ Len(run.indices) = num_samples
              /\ {run.indices[k] : k \in DOMAIN run.indices} = 0..(num_samples - 1)
              /\ run.start % cfg.batch_size = 0
              /\ run.start < num_samples
              /\ run.epoch < cfg.epochs
              /\ Len(batch) >= 1
              /\ Len(batch) = IF num_samples - run.start < cfg.batch_size
                              THEN num_samples - run.start ELSE cfg.batch_size
              /\ \A k \in DOMAIN batch :
                    batch[k] = run.vectors[run.indices[run.start + k] + 1]
              /\ run'.pc = "batch" =>
                    /\ run'.start = run.start + Len(batch)
                    /\ run'.start < num_samples
                    /\ run'.indices = run.indices
                    /\ run'.epoch = run.epoch
              /\ run'.pc \in {"epoch", "embed"} =>
                    /\ run.start + Len(batch) = num_samples
                    /\ run.start \div cfg.batch_size + 1 = updates
                    /\ run'.epoch = run.epoch + 1
                    /\ run'.pc = "embed" <=> run'.epoch = cfg.epochs
              /\ run'.pc \in {"batch", "epoch", "embed", "raised"}]_vars
\* The second epoch is at its smaller last batch, in an order that is not the
\* order of the scan.
C26_Witness ==
    /\ run.pc = "batch"
    /\ run.epoch >= 1
    /\ cfg.batch_size >= 2
    /\ run.start >= cfg.batch_size
    /\ Len(run.vectors) - run.start < cfg.batch_size
    /\ run.indices # [i \in 1..Len(run.vectors) |-> i - 1]

\* C27: a mini-batch step that does not raise leaves each of W2, b2, W1, b1
\* at its value before the step less learning_rate times its gradient, the
\* four gradients taken from the forward pass through the parameters before
\* the step, the one of the hidden layer through W2 before the step, and
\* scaled by 2 over the number of samples in this batch.  The steps compared
\* are those taken while the concurrent load has not started: a step reads
\* nothing of the load.
C27_GradientsFromStartOfStep ==
    [][(q.pc = "exists" /\ run.pc = "batch"
            /\ run'.pc \in {"batch", "epoch", "embed"} /\ run' # run) =>
          LET batch == BatchOf(cfg, run)
              fwd == Forward(batch, run.W1, run.b1, run.W2, run.b2)
              scale == FDiv(FromInt(2), FromInt(Len(batch)))
              grad_reconstruction == MatrixScalarMultiply(fwd.error, scale)
              grad_hidden ==
                  ElementwiseMultiply(MatMul(grad_reconstruction, Transpose(run.W2)),
                                      ReluDerivative(fwd.hidden_linear))
          IN  /\ run'.W2 = DescendMatrix(run.W2,
                                         MatMul(Transpose(fwd.hidden), grad_reconstruction),
                                         cfg.learning_rate)
              /\ run'.b2 = DescendVector(run.b2, MatrixSumAxis0(grad_reconstruction),
                                         cfg.learning_rate)
              /\ run'.W1 = DescendMatrix(run.W1, MatMul(Transpose(batch), grad_hidden),
                                         cfg.learning_rate)
              /\ run'.b1 = DescendVector(run.b1, MatrixSumAxis0(grad_hidden),
                                         cfg.learning_rate)
              /\ run'.loss = fwd.loss]_vars
\* A call has gone through an epoch whose last batch was the smaller one and
\* the steps have moved the encoder and the decoder.
C27_Witness ==
    /\ run.pc = "embed"
    /\ cfg.batch_size >= 2
    /\ Len(run.vectors) % cfg.batch_size # 0
    /\ Len(run.vectors) > cfg.batch_size
    /\ run.W1 # GaussMatrix(Seeded(RngSeed), Cardinality(DOMAIN run.vocab), cfg.hidden_size)
    /\ run.b2 # ZerosVector(Cardinality(DOMAIN run.vocab))
    /\ \A i \in DOMAIN run.W1 : \A j \in DOMAIN run.W1[i] : IsFinite(run.W1[i][j])

\* C28: a load starts with nothing kept from an earlier call, and each of its
\* steps taken after the training call has finished sees that call's
\* artifact: the file is found, and what is read is the state the call has
\* persisted, field by field.
C28_QueryReadsTheLatestArtifact ==
    [][/\ q.pc = "exists" => q.state = <<>> /\ q.kind = ""
       /\ (run.pc = "done" /\ q' # q) =>
             /\ q.pc = "exists" => q'.pc = "open"
             /\ q.pc = "read" =>
                   /\ q'.pc = "version"
                   /\ q'.kind = "dict"
                   /\ DOMAIN q'.state = StateKeys \cup {"version", "hidden_size"}
                   /\ q'.state["version"] = MODEL_VERSION
                   /\ q'.state["vocab"] = run.vocab
                   /\ q'.state["hidden_size"] = cfg.hidden_size
                   /\ q'.state["encoder_weights"] = run.W1
                   /\ q'.state["encoder_bias"] = run.b1
                   /\ q'.state["chunk_texts"] = run.chunks
                   /\ q'.state["chunk_sources"] = run.sources
                   /\ q'.state["chunk_embeddings"] = run.embeddings
             /\ q.pc = "version" /\ q.state = PickleLoad(file).dict =>
                   q'.pc = "vectorize"]_vars
\* A load has returned the state of the call that has just finished, where an
\* earlier call had left another artifact.
C28_Witness ==
    /\ run.pc = "done"
    /\ before = EarlierArtifact
    /\ q.pc = "vectorize"
    /\ q.state = PickleLoad(file).dict
    /\ q.state # PickleLoad(before).dict
    /\ q.state["chunk_texts"] # PickleLoad(before).dict["chunk_texts"]

(***************************************************************************)
(* More properties of the dataset (SpecDataset).                           *)
(***************************************************************************)
\* The paragraphs of chunks k.., read in order.
RECURSIVE ParagraphsOfChunks(_, _)
ParagraphsOfChunks(chunks, k) ==
    IF k > Len(chunks) THEN <<>>
    ELSE Paragraphs(chunks[k]) \o ParagraphsOfChunks(chunks, k + 1)

\* C29: the paragraphs of the chunks of a document, read in order, are the
\* non-blank paragraphs of the document, stripped, in their order and each
\* once; no chunk is empty or without a paragraph.
C29_ChunkerKeepsEveryParagraph ==
    run.pc # "prepare" =>
        LET chunks == ChunkText(DocumentText, cfg.max_chars)
            segments == SplitBlank(DocumentText, 1, <<>>, <<>>)
            kept == SelectSeq(segments, LAMBDA segment : Strip(segment) # <<>>)
        IN  /\ ParagraphsOfChunks(chunks, 1) = [j \in 1..Len(kept) |-> Strip(kept[j])]
            /\ \A k \in DOMAIN chunks :
                  /\ chunks[k] # <<>>
                  /\ Paragraphs(chunks[k]) # <<>>
\* A document of three paragraphs went into two chunks, one of them of two
\* paragraphs.
C29_Witness ==
    /\ Prepared
    /\ Len(Paragraphs(DocumentText)) = 3
    /\ Len(ChunkText(DocumentText, cfg.max_chars)) = 2
    /\ \E k \in 1..2 : Len(Paragraphs(ChunkText(DocumentText, cfg.max_chars)[k])) = 2
    /\ Len(run.chunks) = 2

(***************************************************************************)
(* Properties of the front end (SpecQuery).                                *)
(***************************************************************************)
\* C30: the front end lets no exception of a missing model, of a model of
\* another version or of a question without known vocabulary escape: it
\* prints a message and returns 1; and it returns 0 only with a reply, which
\* it has printed.
C30_FrontEndHandlesQueryFailures ==
    /\ (q.handler # "call"
            /\ q.err \in {AssistantModelNotFoundError, VersionError, UnknownVocabularyError}) =>
           /\ q.handler = "returned"
           /\ q.exit_code = Some(1)
           /\ q.printed # <<>>
    /\ (q.handler = "returned" /\ q.exit_code = Some(0)) =>
           /\ q.pc = "returned"
           /\ q.err = NoError
           /\ q.printed # <<>>
====
